---- MODULE Spec2Model ----
(***************************************************************************)
(* Retrieval core of the Personal Knowledge Base RAG API: the two vector   *)
(* stores of src/src/vector_db.py (FAISSVectorDB, QdrantVectorDB), the     *)
(* Retriever of src/src/retrieval.py and the store construction and lock   *)
(* discipline of src/api.py.                                               *)
(*                                                                         *)
(* Three specifications share the state: Spec is the store called by one   *)
(* caller at a time, SpecConcurrent the flat store under upload requests   *)
(* that hold faiss_lock around add while queries search without it, and    *)
(* SpecRetriever the upload and retrieve path.  The variable last keeps    *)
(* the call that has just run until Return hands its result back.          *)
(*                                                                         *)
(* Vectors are sequences of integers.  A unit vector is kept in fixed      *)
(* point with Scale as the unit, so normalize_L2 is computed (a vector of  *)
(* norm 10 is scaled down to norm 5) and the inner product of two stored   *)
(* vectors is Scale*Scale times their cosine.  Python dicts are functions  *)
(* from keys to values, None and {} are the empty function.  Python list   *)
(* positions are kept 0-based, with -1 the padding label of the index.     *)
(***************************************************************************)
EXTENDS Integers, Sequences, FiniteSets, TLC

----------------------------------------------------------------------------
(* Bounds of the model *)

\* largest number of vectors, and of metadata entries, a store is grown to
MaxStore == 2

\* top_k ranges up to one more than the store can hold
MaxTopK == MaxStore + 1

(* Program constants *)

\* the dimension of the index (384 in the deployed configuration)
Dim == 2

\* fixed point: a unit vector has norm Scale
Scale == 5

\* largest norm of an input vector
MaxNorm == 10

\* concurrent upload requests
Threads == {1, 2}

(* Input domains *)

\* the value None, as returned by dict.get for a missing key
None == "None"

\* filters=None and filters={} are both falsy in `if filters:`
NoFilter == [k \in {} |-> ""]

m1 == [text |-> "t1", source |-> "a"]
m2 == [text |-> "t2", source |-> "b", page |-> "p1"]
m3 == [source |-> "a"]
Metas == {m1, m2, m3}

GoodVecs == {<<5, 0>>, <<6, 8>>}
BadVec == <<5, 0, 0>>
QueryVecs == {<<10, 0>>, <<0, 5>>}
FilterSet == {NoFilter, [source |-> "b"], [page |-> "p1"]}
Scores == {0, 1, 2}
Texts == {"t1", "t2"}
Sources == {"a", "b"}
Queries == {"q1"}
BatchLens == {0, 1, 2}

SeqsOf(S, lens) == UNION {[1..k -> S] : k \in lens}

\* a batch of vectors is a 2-d array: all rows have the same length
VecBatches == SeqsOf(GoodVecs, BatchLens) \cup {<<BadVec>>}
MetaBatches == SeqsOf(Metas, BatchLens)

\* the chunks of one uploaded document: at least one
ChunkLists == SeqsOf(Texts, {1, 2})

Min(a, b) == IF a <= b THEN a ELSE b

----------------------------------------------------------------------------
(* Python and numpy helpers *)

\* dict.get(k, default)
Get(d, k, default) == IF k \in DOMAIN d THEN d[k] ELSE default

\* dict.setdefault(k, v) on a copy
SetDefault(d, k, v) ==
    [y \in DOMAIN d \cup {k} |-> IF y \in DOMAIN d THEN d[y] ELSE v]

\* lst[i] for a python position i (negative positions count from the end)
PyIndex(lst, i) == IF i >= 0 THEN lst[i + 1] ELSE lst[Len(lst) + i + 1]

\* lst[i] raises IndexError
PyIndexRaises(lst, i) == i >= Len(lst) \/ i < 0 - Len(lst)

\* a sequence given by a rule, built as a list
List(s) == s \o <<>>

\* lst[:n] for n >= 0
Truncate(lst, n) == SubSeq(lst, 1, Min(n, Len(lst)))

\* lst[::-1]
Reverse(lst) == [p \in 1..Len(lst) |-> lst[Len(lst) + 1 - p]]

RECURSIVE SumSq(_)
SumSq(v) == IF v = <<>> THEN 0 ELSE Head(v) * Head(v) + SumSq(Tail(v))

Norm(v) == CHOOSE n \in 0..MaxNorm : n * n = SumSq(v)

\* faiss.normalize_L2 of one row: a zero row is left as it is
Normalize(v) ==
    IF Norm(v) = 0 THEN v ELSE [p \in 1..Len(v) |-> (v[p] * Scale) \div Norm(v)]

NormalizeAll(vs) == [p \in 1..Len(vs) |-> Normalize(vs[p])]

RECURSIVE InnerProduct(_, _)
InnerProduct(a, b) ==
    IF a = <<>> THEN 0 ELSE Head(a) * Head(b) + InnerProduct(Tail(a), Tail(b))

----------------------------------------------------------------------------
(* The nearest-neighbour search of the backends *)

\* the ids (0-based) ordered by descending similarity sims[id + 1], equal
\* similarities by ascending id
RankIds(ids, sims) ==
    [p \in 1..Cardinality(ids) |->
        CHOOSE i \in ids :
            Cardinality({j \in ids : \/ sims[j + 1] > sims[i + 1]
                                     \/ (sims[j + 1] = sims[i + 1] /\ j < i)}) = p - 1]

\* inner products of the normalized query with the stored rows
FaissSims(idx, q) ==
    LET nq == List(Normalize(q))
    IN List([p \in 1..Len(idx) |-> InnerProduct(nq, idx[p])])

\* IndexFlatIP.search: top_k labels, padded with -1 when the index is short
IndexSearch(idx, q, top_k) ==
    LET n == Len(idx)
        sims == FaissSims(idx, q)
        ranked == List(RankIds(0..(n - 1), sims))
    IN List([p \in 1..top_k |-> IF p <= n THEN ranked[p] ELSE -1])

----------------------------------------------------------------------------
(* FAISSVectorDB *)

\* faiss asserts that the rows have the dimension of the index
FaissAddRaises(vectors) == \E p \in 1..Len(vectors) : Len(vectors[p]) # Dim

\* self.index.add(vectors), after normalize_L2
FaissIndexAdd(idx, vectors) == idx \o NormalizeAll(vectors)

\* self.metadata.extend(metadata)
FaissMetadataExtend(md, metas) == md \o metas

\* the guard of the result loop
FaissKeep(i, n) == i < n

\* the item built for label i
FaissItem(md, i) ==
    SetDefault(SetDefault(PyIndex(md, i), "text", ""), "source", "unknown")

\* the comprehension that applies the filter
FaissFilterKeep(r, filters) == Get(r, "source", None) = Get(filters, "source", None)

FaissSearch(idx, md, q, top_k, filters) ==
    LET labels == IndexSearch(idx, q, top_k)
        kept == SelectSeq(labels, LAMBDA i : FaissKeep(i, Len(md)))
        raises == \E p \in 1..Len(kept) : PyIndexRaises(md, kept[p])
        ids == IF DOMAIN filters # {}
               THEN SelectSeq(kept, LAMBDA i : FaissFilterKeep(FaissItem(md, i), filters))
               ELSE kept
    IN IF raises
       THEN [outcome |-> "error", ids |-> <<>>, results |-> <<>>]
       ELSE [outcome |-> "ok", ids |-> ids,
             results |-> List([p \in 1..Len(ids) |-> FaissItem(md, ids[p])])]

----------------------------------------------------------------------------
(* QdrantVectorDB *)

\* a construction that keeps an existing collection
QdrantInitKeeping(pts) == pts

\* recreate_collection: the collection of that name is dropped and created
QdrantInit(pts) == <<>>

\* the payload built for one metadata dict
QdrantPayload(meta) ==
    [text |-> Get(meta, "text", ""), source |-> Get(meta, "source", "unknown")]

\* the points built by zip(vectors, metadata)
QdrantPoints(vectors, metas) ==
    [p \in 1..Min(Len(vectors), Len(metas)) |->
        [vector |-> vectors[p], payload |-> QdrantPayload(metas[p])]]

\* the service rejects a point whose vector has not the configured size
QdrantAddRaises(vectors, metas) ==
    \E p \in 1..Len(QdrantPoints(vectors, metas)) :
        Len(QdrantPoints(vectors, metas)[p].vector) # Dim

QdrantAdd(pts, vectors, metas) == pts \o QdrantPoints(vectors, metas)

\* cosines of the query with the stored points
QdrantSims(pts, q) ==
    LET nq == List(Normalize(q))
    IN List([p \in 1..Len(pts) |-> InnerProduct(nq, Normalize(pts[p].vector))])

\* client.search: the condition source == filters.get("source") is applied by
\* the service before the limit; no payload has the source None
QdrantHits(pts, q, top_k, filters) ==
    LET matching == {i \in 0..(Len(pts) - 1) :
                        DOMAIN filters = {} \/
                        pts[i + 1].payload.source = Get(filters, "source", None)}
        sims == QdrantSims(pts, q)
    IN Truncate(List(RankIds(matching, sims)), top_k)

QdrantSearch(pts, q, top_k, filters) ==
    LET hits == QdrantHits(pts, q, top_k, filters)
    IN [outcome |-> "ok", ids |-> hits,
        results |-> List([p \in 1..Len(hits) |->
            [text |-> Get(pts[hits[p] + 1].payload, "text", ""),
             source |-> Get(pts[hits[p] + 1].payload, "source", "unknown")]])]

----------------------------------------------------------------------------
(* Embedder: a fixed model gives a fixed vector of dimension Dim per text *)

Embedding ==
    [x \in Texts \cup Queries |->
        CASE x = "t1" -> <<5, 0>>
          [] x = "t2" -> <<6, 8>>
          [] x = "q1" -> <<0, 10>>]

\* embedder.embed(texts)
Embed(texts) == List([p \in 1..Len(texts) |-> Embedding[texts[p]]])

----------------------------------------------------------------------------
(* Retriever *)

\* isinstance(c, dict) and "text" in c
IsValid(c) == "text" \in DOMAIN c

\* the orders of the positions 0..n-1
Orders ==
    [n \in 0..MaxTopK |->
        {perm \in [1..n -> 0..(n - 1)] : \A a, b \in 1..n : a # b => perm[a] # perm[b]}]

\* np.argsort(scores): positions in ascending order of score; the default
\* sort kind is not stable, equal scores come in any order
Argsort(scores) ==
    {perm \in Orders[Len(scores)] :
        \A a \in 1..(Len(scores) - 1) : scores[perm[a] + 1] <= scores[perm[a + 1] + 1]}

\* the ascending order truncated, the reversal forgotten
SortedIdxAscending(perm, top_k_final) == Truncate(perm, top_k_final)

\* np.argsort(scores)[::-1][:top_k_final]
SortedIdx(perm, top_k_final) == Truncate(Reverse(perm), top_k_final)

\* valid_candidates[:top_k_final]
Unranked(valid, top_k_final) == Truncate(valid, top_k_final)

----------------------------------------------------------------------------
(* State *)

VARIABLES
    backend,     \* db_type of the configuration: "faiss" or "qdrant"
    reranker,    \* whether the Retriever was built with a reranker model
    index,       \* FAISSVectorDB.index: the normalized rows, in insertion order
    metadata,    \* FAISSVectorDB.metadata
    points,      \* the Qdrant collection "pkb", in insertion order
    supplied,    \* history: the metadata dict handed to add for each Qdrant point
    faiss_lock,  \* holder of faiss_lock, 0 when free
    pc,          \* position of each upload request
    pending,     \* the metadata argument of the add call in progress
    last         \* the call that has just run: its arguments and what it returned

vars == <<backend, reranker, index, metadata, points, supplied, faiss_lock, pc, pending, last>>

store == <<index, metadata, points, supplied>>

NoLast ==
    [op |-> "none", outcome |-> "ok", result |-> <<>>, ids |-> <<>>,
     query |-> <<>>, top_k |-> 0, filters |-> NoFilter,
     lenV |-> 0, lenM |-> 0, badDim |-> FALSE, ntotal |-> 0, nmeta |-> 0, midAdd |-> FALSE,
     valid |-> <<>>, scores |-> <<>>, sorted_idx |-> <<>>, top_k_final |-> 0]

\* no call is waiting to hand back its result
Ready == last.op = "none"

\* an add has appended to the index and not yet to the metadata list
MidAdd == \E t \in Threads : pc[t] = "indexed"

\* number of stored vectors and of stored metadata entries
NVectors == IF backend = "faiss" THEN Len(index) ELSE Len(points)
NMetadata == IF backend = "faiss" THEN Len(metadata) ELSE Len(points)

\* vector_db.search of the configured backend
DbSearch(q, top_k, filters) ==
    IF backend = "faiss"
    THEN FaissSearch(index, metadata, q, top_k, filters)
    ELSE QdrantSearch(points, q, top_k, filters)

InitStore ==
    /\ index = <<>>
    /\ metadata = <<>>
    /\ points = <<>>
    /\ supplied = <<>>
    /\ faiss_lock = 0
    /\ pc = [t \in Threads |-> "idle"]
    /\ pending = <<>>
    /\ last = NoLast

----------------------------------------------------------------------------
(* vector_db.add *)

AddRecord(outcome, vectors, metas) ==
    [NoLast EXCEPT !.op = "add", !.outcome = outcome,
                   !.lenV = Len(vectors), !.lenM = Len(metas),
                   !.badDim = FaissAddRaises(vectors),
                   !.ntotal = NVectors, !.nmeta = NMetadata]

\* FAISSVectorDB.add as one step
FaissAddCall(vectors, metas) ==
    IF FaissAddRaises(vectors)
    THEN /\ last' = AddRecord("error", vectors, metas)
         /\ UNCHANGED <<index, metadata>>
    ELSE /\ Len(index) + Len(vectors) <= MaxStore
         /\ Len(metadata) + Len(metas) <= MaxStore
         /\ index' = FaissIndexAdd(index, vectors)
         /\ metadata' = FaissMetadataExtend(metadata, metas)
         /\ last' = AddRecord("ok", vectors, metas)

\* QdrantVectorDB.add: one upsert
QdrantAddCall(vectors, metas) ==
    IF QdrantAddRaises(vectors, metas)
    THEN /\ last' = AddRecord("error", vectors, metas)
         /\ UNCHANGED <<points, supplied>>
    ELSE /\ Len(points) + Len(QdrantPoints(vectors, metas)) <= MaxStore
         /\ points' = QdrantAdd(points, vectors, metas)
         /\ supplied' = supplied \o Truncate(metas, Len(vectors))
         /\ last' = AddRecord("ok", vectors, metas)

\* the add of an upload request that runs alone (api.py takes the lock for faiss)
AddCall(vectors, metas) ==
    /\ Ready
    /\ faiss_lock = 0
    /\ IF backend = "faiss"
       THEN FaissAddCall(vectors, metas) /\ UNCHANGED <<points, supplied>>
       ELSE QdrantAddCall(vectors, metas) /\ UNCHANGED <<index, metadata>>
    /\ UNCHANGED <<backend, reranker, faiss_lock, pc, pending>>

\* the metadata list upload_document builds for its chunks
UploadMetadata(chunks, source) ==
    List([p \in 1..Len(chunks) |-> [text |-> chunks[p], source |-> source]])

\* upload_document: embed the chunks, tag each with the source, add them
UploadCall(chunks, source) == AddCall(Embed(chunks), UploadMetadata(chunks, source))

----------------------------------------------------------------------------
(* Concurrent upload requests on the flat store:                           *)
(* `with faiss_lock: vector_db.add(vectors, metadata)`                     *)
(* Requests run in parallel threads, the scheduling threading.Lock is for; *)
(* add is two steps, one per structure it grows.                           *)

\* with faiss_lock:
Acquire(t) ==
    /\ Ready
    /\ backend = "faiss"
    /\ pc[t] = "idle"
    /\ faiss_lock = 0
    /\ faiss_lock' = t
    /\ pc' = [pc EXCEPT ![t] = "locked"]
    /\ UNCHANGED <<backend, reranker, store, pending, last>>

\* add(vectors, metadata) up to self.index.add(vectors)
IndexAdd(t, chunks, source) ==
    /\ Ready
    /\ pc[t] = "locked"
    /\ Len(index) + Len(chunks) <= MaxStore
    /\ index' = FaissIndexAdd(index, Embed(chunks))
    /\ pending' = UploadMetadata(chunks, source)
    /\ pc' = [pc EXCEPT ![t] = "indexed"]
    /\ UNCHANGED <<backend, reranker, metadata, points, supplied, faiss_lock, last>>

\* self.metadata.extend(metadata), then the lock is released
MetadataExtend(t) ==
    /\ Ready
    /\ pc[t] = "indexed"
    /\ metadata' = FaissMetadataExtend(metadata, pending)
    /\ pending' = <<>>
    /\ faiss_lock' = 0
    /\ pc' = [pc EXCEPT ![t] = "idle"]
    /\ UNCHANGED <<backend, reranker, index, points, supplied, last>>

----------------------------------------------------------------------------
(* vector_db.search, called without taking the lock *)

SearchCall(q, top_k, filters) ==
    /\ Ready
    /\ \E s \in {DbSearch(q, top_k, filters)} :
         last' = [NoLast EXCEPT !.op = "search", !.outcome = s.outcome,
                                !.result = s.results, !.ids = s.ids,
                                !.query = q, !.top_k = top_k, !.filters = filters,
                                !.ntotal = NVectors, !.nmeta = NMetadata,
                                !.midAdd = MidAdd]
    /\ UNCHANGED <<backend, reranker, store, faiss_lock, pc, pending>>

----------------------------------------------------------------------------
(* Retriever.retrieve; an error of the search propagates *)

RetrieveCall(query, top_k_initial, top_k_final, filters) ==
    /\ Ready
    /\ \E s \in {DbSearch(Embed(<<query>>)[1], top_k_initial, filters)} :
       \E valid \in {SelectSeq(s.results, IsValid)} :
         IF s.outcome = "error"
         THEN last' = [NoLast EXCEPT !.op = "retrieve", !.outcome = "error",
                                     !.top_k_final = top_k_final]
         ELSE IF reranker /\ valid # <<>>
         THEN \E scores \in [1..Len(valid) -> Scores] :
              \E perm \in Argsort(scores) :
              \E idx \in {SortedIdx(perm, top_k_final)} :
                last' = [NoLast EXCEPT !.op = "retrieve", !.valid = valid,
                                       !.scores = scores, !.sorted_idx = idx,
                                       !.top_k_final = top_k_final,
                                       !.result = List([p \in 1..Len(idx) |-> valid[idx[p] + 1]])]
         ELSE last' = [NoLast EXCEPT !.op = "retrieve", !.valid = valid,
                                     !.top_k_final = top_k_final,
                                     !.result = Unranked(valid, top_k_final)]
    /\ UNCHANGED <<backend, reranker, store, faiss_lock, pc, pending>>

----------------------------------------------------------------------------
(* Store construction at process start (api.py): requests in flight are gone *)

Construct ==
    /\ Ready
    /\ IF backend = "faiss"
       THEN /\ index' = <<>>
            /\ metadata' = <<>>
            /\ UNCHANGED <<points, supplied>>
       ELSE /\ points' = QdrantInit(points)
            /\ supplied' = <<>>
            /\ UNCHANGED <<index, metadata>>
    /\ faiss_lock' = 0
    /\ pc' = [t \in Threads |-> "idle"]
    /\ pending' = <<>>
    /\ last' = [NoLast EXCEPT !.op = "construct", !.ntotal = NVectors, !.nmeta = NMetadata]
    /\ UNCHANGED <<backend, reranker>>

\* the call hands its result back to its caller
Return ==
    /\ ~Ready
    /\ last' = NoLast
    /\ UNCHANGED <<backend, reranker, store, faiss_lock, pc, pending>>

----------------------------------------------------------------------------
(* The store used by one caller at a time, no reranker configured *)

Init ==
    /\ backend \in {"faiss", "qdrant"}
    /\ reranker = FALSE
    /\ InitStore

Next ==
    \/ \E vectors \in VecBatches, metas \in MetaBatches : AddCall(vectors, metas)
    \/ \E q \in QueryVecs, top_k \in 1..MaxTopK, filters \in FilterSet : SearchCall(q, top_k, filters)
    \/ Construct
    \/ Return

Spec == Init /\ [][Next]_vars

(* The flat store under concurrent upload and query requests *)

InitConcurrent ==
    /\ backend = "faiss"
    /\ reranker = FALSE
    /\ InitStore

NextConcurrent ==
    \/ \E t \in Threads : Acquire(t)
    \/ \E t \in Threads, chunks \in ChunkLists, source \in Sources : IndexAdd(t, chunks, source)
    \/ \E t \in Threads : MetadataExtend(t)
    \/ \E q \in QueryVecs, top_k \in 1..MaxTopK, filters \in FilterSet : SearchCall(q, top_k, filters)
    \/ Construct
    \/ Return

SpecConcurrent == InitConcurrent /\ [][NextConcurrent]_vars

(* Upload and retrieval over either store, with or without a reranker *)

InitRetriever ==
    /\ backend \in {"faiss", "qdrant"}
    /\ reranker \in BOOLEAN
    /\ InitStore

NextRetriever ==
    \/ \E chunks \in ChunkLists, source \in Sources : UploadCall(chunks, source)
    \/ \E q \in QueryVecs, top_k \in 1..MaxTopK, filters \in FilterSet : SearchCall(q, top_k, filters)
    \/ \E query \in Queries, top_k_initial \in 1..MaxTopK, top_k_final \in 1..MaxTopK, filters \in FilterSet :
          RetrieveCall(query, top_k_initial, top_k_final, filters)
    \/ Construct
    \/ Return

SpecRetriever == InitRetriever /\ [][NextRetriever]_vars

----------------------------------------------------------------------------
(* Properties *)

IsPrefix(a, b) == Len(a) <= Len(b) /\ SubSeq(b, 1, Len(a)) = a

\* the flat store after whole, equal-length adds: as many rows as metadata
FlatConsistent == backend = "faiss" /\ Len(index) = Len(metadata)

\* similarity to the query of the entry a returned label stands for
LabelSim(q, i) == FaissSims(index, q)[IF i >= 0 THEN i + 1 ELSE Len(index) + i + 1]

\* the stored position a returned label stands for
LabelPos(i) == IF i >= 0 THEN i ELSE Len(index) + i

\* the metadata that was handed to add for the entry behind a returned id
Given(i) == IF backend = "faiss" THEN PyIndex(metadata, i) ELSE supplied[i + 1]

\* C1: on the flat store, a search without filter returns at most top_k
\* candidates and exactly min(top_k, store size) of them.
C1_CountBound ==
    (last.op = "search" /\ FlatConsistent /\ last.filters = NoFilter)
        => /\ Len(last.result) <= last.top_k
           /\ Len(last.result) = Min(last.top_k, Len(index))

\* C2: on a store with no entries, search and Retriever.retrieve return the
\* empty sequence and raise no error, for every top_k and filter.
C2_EmptyStore ==
    (last.op \in {"search", "retrieve"} /\ NVectors = 0 /\ NMetadata = 0)
        => (last.outcome = "ok" /\ last.result = <<>>)

\* C3: an add with batches of different lengths, or with a vector of the
\* wrong dimension, fails and leaves the store as it was; the number of
\* vectors and of metadata entries are equal after every add.
C3_AddValidation ==
    /\ (last.op = "add" /\ (last.lenV # last.lenM \/ last.badDim))
          => /\ last.outcome = "error"
             /\ NVectors = last.ntotal
             /\ NMetadata = last.nmeta
    /\ NVectors = NMetadata

\* C4: no search runs between the append to the index and the append to the
\* metadata list of an add, so a search never sees the two counts differ.
C4_SearchExcludesAdd ==
    last.op = "search" => (~last.midAdd /\ last.ntotal = last.nmeta)

\* C5: on the flat store the candidates come in non-increasing similarity,
\* equal similarities in insertion order, also when top_k exceeds the size.
C5_Ordering ==
    (last.op = "search" /\ FlatConsistent)
        => \A a, b \in 1..Len(last.ids) :
              a < b =>
                \/ LabelSim(last.query, last.ids[a]) > LabelSim(last.query, last.ids[b])
                \/ /\ LabelSim(last.query, last.ids[a]) = LabelSim(last.query, last.ids[b])
                   /\ LabelPos(last.ids[a]) <= LabelPos(last.ids[b])

\* C6: a search with a filter on any field returns exactly the candidates of
\* the unfiltered top_k result whose metadata has the filter's value for the
\* filter's field, in the same order.
C6_FilterAfterRanking ==
    (last.op = "search" /\ DOMAIN last.filters # {})
        => last.result =
              SelectSeq(DbSearch(last.query, last.top_k, NoFilter).results,
                        LAMBDA r : \A k \in DOMAIN last.filters :
                                      Get(r, k, None) = last.filters[k])

\* C7: retrieve never returns more than top_k_final candidates; with a
\* reranker and at least one candidate it returns the top_k_final candidates
\* of highest rerank score in descending order of score, which is the
\* reversed order truncated when the scores reverse the similarity order;
\* without a reranker it returns the first top_k_final candidates.
C7_RerankOrder ==
    (last.op = "retrieve" /\ last.outcome = "ok")
        => LET n == Len(last.valid)
               k == Min(last.top_k_final, n)
               idx == last.sorted_idx
               sc == last.scores
           IN /\ Len(last.result) <= last.top_k_final
              /\ (reranker /\ n > 0) =>
                    /\ Len(last.result) = k
                    /\ Len(idx) = k
                    /\ \A a \in 1..k : idx[a] \in 0..(n - 1) /\ last.result[a] = last.valid[idx[a] + 1]
                    /\ \A a, b \in 1..k : a < b => idx[a] # idx[b] /\ sc[idx[a] + 1] >= sc[idx[b] + 1]
                    /\ \A j \in 0..(n - 1) :
                          (\A a \in 1..k : idx[a] # j) => \A a \in 1..k : sc[j + 1] <= sc[idx[a] + 1]
                    /\ (\A a \in 1..(n - 1) : sc[a] < sc[a + 1])
                          => last.result = Truncate(Reverse(last.valid), last.top_k_final)
              /\ ~(reranker /\ n > 0) => last.result = Truncate(last.valid, last.top_k_final)

C7_Witness ==
    /\ reranker
    /\ last.op = "retrieve"
    /\ Len(last.valid) = 3
    /\ last.top_k_final = 2
    /\ last.scores = <<0, 1, 2>>
    /\ last.valid[2] # last.valid[3]
    /\ last.result = <<last.valid[3], last.valid[2]>>

\* C8: candidates of equal rerank score keep their order of before the rerank.
C8_StableTies ==
    (last.op = "retrieve" /\ reranker /\ last.valid # <<>>)
        => \A a, b \in 1..Len(last.sorted_idx) :
              (a < b /\ last.scores[last.sorted_idx[a] + 1] = last.scores[last.sorted_idx[b] + 1])
                  => last.sorted_idx[a] < last.sorted_idx[b]

\* C9: a returned candidate has every key and value of the metadata that
\* was handed to add for its entry, on both backends.
C9_MetadataPreserved ==
    (last.op = "search" /\ last.outcome = "ok")
        => \A p \in 1..Len(last.ids) :
              \A k \in DOMAIN Given(last.ids[p]) :
                  /\ k \in DOMAIN last.result[p]
                  /\ last.result[p][k] = Given(last.ids[p])[k]

\* C10: constructing the Qdrant store leaves the collection empty, so that
\* every search returns nothing; every other step only appends to it.
C10_DestructiveConstruct ==
    [][backend = "qdrant" =>
          IF last'.op = "construct"
          THEN /\ points' = <<>>
               /\ \A q \in QueryVecs, top_k \in 1..MaxTopK, filters \in FilterSet :
                     QdrantSearch(points', q, top_k, filters).results = <<>>
          ELSE IsPrefix(points, points')]_vars

C10_Witness ==
    /\ backend = "qdrant"
    /\ last.op = "construct"
    /\ last.ntotal = MaxStore
    /\ points = <<>>

====
